---- MODULE Spec2Model ----
(***************************************************************************)
(* GitHubCodeBrowser (src/index/code-browser.js): the repository loader    *)
(* with its main/master branch fallback, the path-list-to-tree builder,    *)
(* and the file selection / file content fetch handlers.                   *)
(*                                                                         *)
(* Strings whose characters matter (paths, exclude patterns, the           *)
(* data-excluded-paths attribute) are sequences of one-character strings,  *)
(* so that split('/'), split(',') and includes() are computed.  Branch     *)
(* names are only ever compared whole and are plain strings.               *)
(***************************************************************************)
EXTENDS Naturals, Integers, Sequences, FiniteSets, TLC

VARIABLES
    config,         \* how the instance was created and with which options
    remote,         \* the entries the trees endpoint serves for the repository
    branch,         \* this.branch
    maxFileSize,    \* this.maxFileSize
    excludedPaths,  \* this.excludedPaths
    fileTree,       \* this.fileTree: [isNull, nodes]
    ctrl,           \* what the tree panel shows: "Loading", "Ready", "Error"
    net,            \* the fetch() calls whose promise has not settled yet
    selected,       \* the paths of the .tree-file elements carrying class "selected"
    viewer,         \* what the .file-viewer panel shows
    clicks,         \* number of selectFile calls so far
    nreq,           \* number of fetch() calls so far
    lookups,        \* the branch names looked up so far, in order
    resolved,       \* the branch whose lookup succeeded ("" before that)
    lastEvent       \* the handler that ran last, with its input

vars == <<config, remote, branch, maxFileSize, excludedPaths, fileTree, ctrl,
          net, selected, viewer, clicks, nreq, lookups, resolved, lastEvent>>

----------------------------------------------------------------------------
(* Bounds *)

MaxClicks == 3
MaxFiles == 2
MaxPathLen == 3

(* Program constants *)

DefaultMaxFileSize == 100000

DefaultBranch == "main"

FallbackBranch == "master"

DefaultExcludedPaths ==
    << <<".","g","i","t">>,
       <<"n","o","d","e","_","m","o","d","u","l","e","s">>,
       <<".","v","s">>,
       <<"B","i","n","a","r","i","e","s">>,
       <<"D","e","r","i","v","e","d","D","a","t","a","C","a","c","h","e">>,
       <<"I","n","t","e","r","m","e","d","i","a","t","e">>,
       <<"S","a","v","e","d">>,
       <<"B","u","i","l","d">> >>

----------------------------------------------------------------------------
(* String helpers: String.prototype.includes, split, and the join used to  *)
(* read a leaf's position in the tree back as a path.                      *)

Includes(s, sub) ==
    \E i \in 0..Len(s) :
        /\ i + Len(sub) <= Len(s)
        /\ SubSeq(s, i + 1, i + Len(sub)) = sub

RECURSIVE Split(_, _)
Split(s, sep) ==
    IF \A i \in 1..Len(s) : s[i] # sep
    THEN << s >>
    ELSE LET i == CHOOSE j \in 1..Len(s) :
                      s[j] = sep /\ \A k \in 1..(j - 1) : s[k] # sep
         IN  << SubSeq(s, 1, i - 1) >> \o Split(SubSeq(s, i + 1, Len(s)), sep)

RECURSIVE Join(_, _)
Join(parts, sep) ==
    IF Len(parts) = 0 THEN << >>
    ELSE IF Len(parts) = 1 THEN parts[1]
    ELSE parts[1] \o << sep >> \o Join(Tail(parts), sep)

----------------------------------------------------------------------------
(* buildFileTree.  The nested object is kept as a map from a node's chain  *)
(* of keys (the segment names from the root) to the node; a node exists    *)
(* only below folder nodes.  The result is [ok, nodes]; ok = FALSE is the  *)
(* TypeError raised when the walk steps into the undefined .children of a  *)
(* file node.                                                              *)

EmptyTree == << >>

FolderNode == [type |-> "folder", path |-> << >>, sha |-> 0, size |-> 0]

FileNode(file) ==
    [type |-> "file", path |-> file.path, sha |-> file.sha, size |-> file.size]

IsBelow(key, k) == Len(key) < Len(k) /\ SubSeq(k, 1, Len(key)) = key

\* current[part] = {type: 'file', ...}: the slot's old value, a folder with
\* all it held included, is dropped
SetFile(nodes, key, file) ==
    LET keep == {k \in DOMAIN nodes : k # key /\ ~IsBelow(key, k)}
    IN  [k \in keep \cup {key} |-> IF k = key THEN FileNode(file) ELSE nodes[k]]

IsExcluded(path) ==
    \E i \in 1..Len(excludedPaths) : Includes(path, excludedPaths[i])

RECURSIVE InsertParts(_, _, _, _, _)
InsertParts(nodes, current, parts, i, file) ==
    LET key == Append(current, parts[i])
    IN  IF i = Len(parts)
        THEN [ok |-> TRUE, nodes |-> SetFile(nodes, key, file)]
        ELSE LET made == IF key \in DOMAIN nodes
                         THEN nodes
                         ELSE [k \in DOMAIN nodes \cup {key} |->
                                   IF k = key THEN FolderNode ELSE nodes[k]]
             IN  IF made[key].type = "folder"
                 THEN InsertParts(made, key, parts, i + 1, file)
                 ELSE [ok |-> FALSE, nodes |-> made]

RECURSIVE BuildFrom(_, _, _)
BuildFrom(files, i, nodes) ==
    IF i > Len(files) THEN [ok |-> TRUE, nodes |-> nodes]
    ELSE IF IsExcluded(files[i].path) THEN BuildFrom(files, i + 1, nodes)
    ELSE LET r == InsertParts(nodes, << >>, Split(files[i].path, "/"), 1, files[i])
         IN  IF r.ok THEN BuildFrom(files, i + 1, r.nodes) ELSE r

buildFileTree(files) == BuildFrom(files, 1, EmptyTree)

\* treeData.tree.filter(item => item.type === 'blob')
Blobs(entries) == SelectSeq(entries, LAMBDA e : e.type = "blob")

\* the .tree-file elements createTreeElement makes, one per file node
Leaves == {fileTree.nodes[k] : k \in {j \in DOMAIN fileTree.nodes :
                                          fileTree.nodes[j].type = "file"}}

----------------------------------------------------------------------------
(* Construction: the constructor's option defaults, and the options the    *)
(* DOMContentLoaded handler derives from an element's data- attributes.    *)
(* An omitted option or absent attribute is the falsy value of its type    *)
(* ("" for a branch, 0 for a size, hasExcluded = FALSE for the list).      *)

ConstructorBranch(options) ==
    IF options.branch = "" THEN DefaultBranch ELSE options.branch

ConstructorMaxFileSize(options) ==
    IF options.maxFileSize = 0 THEN DefaultMaxFileSize ELSE options.maxFileSize

\* options.excludedPaths || [...]: an array, the empty one too, is truthy
ConstructorExcludedPaths(options) ==
    IF options.hasExcluded THEN options.excluded ELSE DefaultExcludedPaths

\* the options object the auto-initialize handler passes to the constructor
AutoInitOptions(attrs) ==
    [branch      |-> IF attrs.branch = "" THEN DefaultBranch ELSE attrs.branch,
     maxFileSize |-> IF attrs.maxFileSize = 0 THEN DefaultMaxFileSize
                     ELSE attrs.maxFileSize,
     hasExcluded |-> TRUE,
     excluded    |-> IF attrs.hasExcluded /\ Len(attrs.excluded) > 0
                     THEN Split(attrs.excluded, ",")
                     ELSE << >>]

Options(cfg) == IF cfg.via = "auto" THEN AutoInitOptions(cfg) ELSE cfg

----------------------------------------------------------------------------
(* Requests and views *)

Request(n, kind, b, path, click) ==
    [seq |-> n, kind |-> kind, branch |-> b, path |-> path, click |-> click]

\* mutation of InitialRequests: both conventional names are looked up at once
InitialRequests_both(b) ==
    IF b = DefaultBranch
    THEN {Request(1, "branch", b, << >>, 0),
          Request(2, "branch", FallbackBranch, << >>, 0)}
    ELSE {Request(1, "branch", b, << >>, 0)}

\* fetchRepositoryTree's first fetch: one lookup, of this.branch
InitialRequests(b) == {Request(1, "branch", b, << >>, 0)}

\* mutation of ContentRef: the configured name, not the one the fallback set
ContentRef_configured == ConstructorBranch(Options(config))

\* the ref a file content request names
ContentRef == branch

View(kind, path, b, sha, size) ==
    [kind |-> kind, path |-> path, branch |-> b, sha |-> sha, size |-> size]

Placeholder == View("NoSelection", << >>, "", 0, 0)

\* showFileViewer(message), one per message of selectFile
LoadingView == View("FetchingFile", << >>, "", 0, 0)

TooLargeView(size) == View("FileTooLarge", << >>, "", 0, size)

FailedView == View("FileError", << >>, "", 0, 0)

\* the content the contents endpoint serves for a path: that blob's sha
ContentOf(path) ==
    LET hits == {i \in 1..Len(remote) :
                     remote[i].type = "blob" /\ remote[i].path = path}
    IN  IF hits = {} THEN 0 ELSE remote[CHOOSE i \in hits : TRUE].sha

\* mutation of displayFile: a response for a file no longer selected is dropped
displayFile_current(path, content) ==
    IF path \in selected THEN View("FileDisplayed", path, branch, content, 0)
    ELSE viewer

displayFile(path, content) == View("FileDisplayed", path, branch, content, 0)

Event(op, outcome, b, path, size) ==
    [op |-> op, outcome |-> outcome, branch |-> b, path |-> path, size |-> size]

----------------------------------------------------------------------------
(* The inputs: configurations, and the listing of the remote repository *)

Src_a == <<"s","r","c","/","a",".","j","s">>
Src_b == <<"s","r","c","/","b",".","j","s">>
Nm_x  == <<"n","o","d","e","_","m","o","d","u","l","e","s","/","x",".","j","s">>

Entry(type, path, sha, size) ==
    [type |-> type, path |-> path, sha |-> sha, size |-> size]

Listings ==
    { << Entry("tree", <<"s","r","c">>, 10, 0),
         Entry("blob", Src_a, 11, 50),
         Entry("blob", Src_b, 12, 500),
         Entry("tree", DefaultExcludedPaths[2], 13, 0),
         Entry("blob", Nm_x, 14, 200000) >> }

BranchOptions == {"", "main", "dev"}

SizeOptions == {0, 100}

\* options.excludedPaths as an array of patterns
ExcludedArrays == { << >>, << <<"b",".">> >> }

\* data-excluded-paths as a comma-delimited string
ExcludedAttributes == { <<"b",".",",","x",".">> }

Configs(via, lists) ==
    {[via |-> via, branch |-> b, maxFileSize |-> m, hasExcluded |-> h, excluded |-> e] :
        b \in BranchOptions, m \in SizeOptions, h \in {TRUE}, e \in lists}
    \cup
    {[via |-> via, branch |-> b, maxFileSize |-> m, hasExcluded |-> h, excluded |-> e] :
        b \in BranchOptions, m \in SizeOptions, h \in {FALSE}, e \in {<< >>}}

\* the state once the constructor has returned: init() has rendered the
\* placeholder panels and loadRepository is suspended on its first fetch
Constructed(cfg) ==
    /\ config = cfg
    /\ branch = ConstructorBranch(Options(cfg))
    /\ maxFileSize = ConstructorMaxFileSize(Options(cfg))
    /\ excludedPaths = ConstructorExcludedPaths(Options(cfg))
    /\ fileTree = [isNull |-> TRUE, nodes |-> EmptyTree]
    /\ ctrl = "Loading"
    /\ net = InitialRequests(ConstructorBranch(Options(cfg)))
    /\ nreq = Cardinality(InitialRequests(ConstructorBranch(Options(cfg))))
    /\ lookups = << ConstructorBranch(Options(cfg)) >>
    /\ selected = {}
    /\ viewer = Placeholder
    /\ clicks = 0
    /\ resolved = ""
    /\ lastEvent = Event("init", "none", "", << >>, 0)

Init ==
    /\ remote \in Listings
    /\ \/ \E cfg \in Configs("constructor", ExcludedArrays) : Constructed(cfg)
       \/ \E cfg \in Configs("auto", ExcludedAttributes) : Constructed(cfg)

----------------------------------------------------------------------------
(* loadRepository / fetchRepositoryTree.  A fetch settles in one of three  *)
(* ways: a response with ok, a response without ok, or a rejected promise. *)
(* The continuation of the awaiting function runs in the same step.        *)

\* the branch lookup answered ok: the tree listing is requested
BranchLookupOk(r) ==
    /\ r.kind = "branch"
    /\ net' = (net \ {r}) \cup {Request(nreq + 1, "tree", branch, << >>, 0)}
    /\ nreq' = nreq + 1
    /\ resolved' = r.branch
    /\ lastEvent' = Event("branch", "ok", r.branch, << >>, 0)
    /\ UNCHANGED <<config, remote, branch, maxFileSize, excludedPaths, fileTree,
                   ctrl, selected, viewer, clicks, lookups>>

\* !branchResponse.ok: 'master' is tried if this.branch is 'main', else the
\* error is thrown to loadRepository's catch, which calls showError
BranchLookupNotOk(r) ==
    /\ r.kind = "branch"
    /\ IF branch = DefaultBranch
       THEN /\ branch' = FallbackBranch
            /\ net' = (net \ {r}) \cup
                          {Request(nreq + 1, "branch", FallbackBranch, << >>, 0)}
            /\ nreq' = nreq + 1
            /\ lookups' = Append(lookups, FallbackBranch)
            /\ ctrl' = ctrl
       ELSE /\ ctrl' = "Error"
            /\ net' = net \ {r}
            /\ UNCHANGED <<branch, nreq, lookups>>
    /\ lastEvent' = Event("branch", "notok", r.branch, << >>, 0)
    /\ UNCHANGED <<config, remote, maxFileSize, excludedPaths, fileTree,
                   selected, viewer, clicks, resolved>>

\* await fetch(branchUrl) throws: nothing of fetchRepositoryTree runs after
\* it, loadRepository's catch calls showError
BranchLookupRejected(r) ==
    /\ r.kind = "branch"
    /\ ctrl' = "Error"
    /\ net' = net \ {r}
    /\ lastEvent' = Event("branch", "rejected", r.branch, << >>, 0)
    /\ UNCHANGED <<config, remote, branch, maxFileSize, excludedPaths, fileTree,
                   selected, viewer, clicks, nreq, lookups, resolved>>

\* the listing arrived: buildFileTree, then renderFileTree; a throw of
\* buildFileTree leaves this.fileTree unassigned and ends in showError
TreeListingOk(r) ==
    /\ r.kind = "tree"
    /\ LET built == buildFileTree(Blobs(remote))
       IN  IF built.ok
           THEN /\ fileTree' = [isNull |-> FALSE, nodes |-> built.nodes]
                /\ ctrl' = "Ready"
           ELSE /\ fileTree' = fileTree
                /\ ctrl' = "Error"
    /\ net' = net \ {r}
    /\ lastEvent' = Event("tree", "ok", r.branch, << >>, 0)
    /\ UNCHANGED <<config, remote, branch, maxFileSize, excludedPaths,
                   selected, viewer, clicks, nreq, lookups, resolved>>

\* !treeResponse.ok, or the fetch rejected
TreeListingFailed(r, outcome) ==
    /\ r.kind = "tree"
    /\ ctrl' = "Error"
    /\ net' = net \ {r}
    /\ lastEvent' = Event("tree", outcome, r.branch, << >>, 0)
    /\ UNCHANGED <<config, remote, branch, maxFileSize, excludedPaths, fileTree,
                   selected, viewer, clicks, nreq, lookups, resolved>>

----------------------------------------------------------------------------
(* selectFile, from the click listener of a .tree-file element *)

\* mutation of FileTooLarge: the configured limit is ignored
FileTooLarge_default(size) == size > DefaultMaxFileSize

FileTooLarge(size) == size > maxFileSize

\* mutation of ClearSelection: the old marks are left in place
ClearSelection_kept(marked) == marked

\* querySelectorAll('.tree-file').forEach(el => el.classList.remove('selected'))
ClearSelection(marked) == {}

selectFile(path, size) ==
    /\ clicks' = clicks + 1
    /\ selected' = ClearSelection(selected) \cup {path}
    /\ IF FileTooLarge(size)
       THEN /\ viewer' = TooLargeView(size)
            /\ UNCHANGED <<net, nreq>>
       ELSE /\ viewer' = LoadingView
            /\ net' = net \cup {Request(nreq + 1, "file", ContentRef, path, clicks + 1)}
            /\ nreq' = nreq + 1
    /\ lastEvent' = Event("click", "none", "", path, size)
    /\ UNCHANGED <<config, remote, branch, maxFileSize, excludedPaths, fileTree,
                   ctrl, lookups, resolved>>

Click ==
    /\ clicks < MaxClicks
    /\ \E leaf \in Leaves : selectFile(leaf.path, leaf.size)

\* the content arrived: displayFile(path, content)
FileContentOk(r) ==
    /\ r.kind = "file"
    /\ viewer' = displayFile(r.path, ContentOf(r.path))
    /\ net' = net \ {r}
    /\ lastEvent' = Event("file", "ok", r.branch, r.path, 0)
    /\ UNCHANGED <<config, remote, branch, maxFileSize, excludedPaths, fileTree,
                   ctrl, selected, clicks, nreq, lookups, resolved>>

\* mutation of FileContentFailed: the fetch is issued again
FileContentFailed_retry(r, outcome) ==
    /\ r.kind = "file"
    /\ viewer' = FailedView
    /\ net' = (net \ {r}) \cup {Request(nreq + 1, "file", r.branch, r.path, r.click)}
    /\ nreq' = nreq + 1
    /\ lastEvent' = Event("file", outcome, r.branch, r.path, 0)
    /\ UNCHANGED <<config, remote, branch, maxFileSize, excludedPaths, fileTree,
                   ctrl, selected, clicks, lookups, resolved>>

\* !response.ok, or the fetch rejected: selectFile's catch shows the message
FileContentFailed(r, outcome) ==
    /\ r.kind = "file"
    /\ viewer' = FailedView
    /\ net' = net \ {r}
    /\ lastEvent' = Event("file", outcome, r.branch, r.path, 0)
    /\ UNCHANGED <<config, remote, branch, maxFileSize, excludedPaths, fileTree,
                   ctrl, selected, clicks, nreq, lookups, resolved>>

Failures == {"notok", "rejected"}

Next ==
    \/ \E r \in net : BranchLookupOk(r)
    \/ \E r \in net : BranchLookupNotOk(r)
    \/ \E r \in net : BranchLookupRejected(r)
    \/ \E r \in net : TreeListingOk(r)
    \/ \E r \in net, outcome \in Failures : TreeListingFailed(r, outcome)
    \/ Click
    \/ \E r \in net : FileContentOk(r)
    \/ \E r \in net, outcome \in Failures : FileContentFailed(r, outcome)

Spec == Init /\ [][Next]_vars

----------------------------------------------------------------------------
(* buildFileTree on arbitrary listings: every list of at most MaxFiles     *)
(* blob records with pairwise different paths of at most MaxPathLen        *)
(* characters over Alphabet, under each list of ExcludeLists.  The start   *)
(* is an instance whose branch lookup has been answered and whose tree     *)
(* listing is awaited; the one step is the listing's arrival.              *)

Alphabet == {"a", "b", "/"}

RECURSIVE Strings(_)
Strings(n) ==
    IF n = 0 THEN {<< >>}
    ELSE LET shorter == Strings(n - 1)
         IN  shorter \cup {Append(s, c) : s \in shorter, c \in Alphabet}

BuildPaths == Strings(MaxPathLen) \ {<< >>}

BuildRecords ==
    {Entry("blob", p, v, 10 * v) : p \in BuildPaths, v \in {1, 2}}

RECURSIVE BuildListings(_)
BuildListings(n) ==
    IF n = 0 THEN {<< >>}
    ELSE LET shorter == BuildListings(n - 1)
         IN  shorter \cup
             {Append(l, e) : l \in shorter, e \in BuildRecords}

NoDuplicatePaths(files) ==
    \A i, j \in 1..Len(files) : files[i].path = files[j].path => i = j

ExcludeLists == { << >>, << <<"b">> >>, << <<"a","/">>, <<"/","/">> >> }

InitBuild ==
    /\ remote \in {l \in BuildListings(MaxFiles) : NoDuplicatePaths(l)}
    /\ \E e \in ExcludeLists :
        /\ config = [via |-> "constructor", branch |-> "", maxFileSize |-> 0,
                     hasExcluded |-> TRUE, excluded |-> e]
        /\ excludedPaths = ConstructorExcludedPaths(config)
    /\ branch = ConstructorBranch(config)
    /\ maxFileSize = ConstructorMaxFileSize(config)
    /\ fileTree = [isNull |-> TRUE, nodes |-> EmptyTree]
    /\ ctrl = "Loading"
    /\ net = {Request(2, "tree", ConstructorBranch(config), << >>, 0)}
    /\ nreq = 2
    /\ lookups = << ConstructorBranch(config) >>
    /\ selected = {}
    /\ viewer = Placeholder
    /\ clicks = 0
    /\ resolved = ConstructorBranch(config)
    /\ lastEvent = Event("branch", "ok", ConstructorBranch(config), << >>, 0)

NextBuild == \E r \in net : TreeListingOk(r)

SpecBuild == InitBuild /\ [][NextBuild]_vars

----------------------------------------------------------------------------
(* Properties *)

Configured == ConstructorBranch(Options(config))

FileRequests == {r \in net : r.kind = "file"}

\* C1: a failed branch lookup (a response without ok, or a rejected request)
\* of the configured branch "main" is followed by exactly one further lookup,
\* of "master"; any other failed lookup ends in Error with nothing requested,
\* and there are never more than two lookups.  (Checked against the code: the
\* rejected lookup of "main" ends in Error without the lookup of "master".)
C1_BranchFallback ==
    /\ Len(lookups) <= 2
    /\ (lastEvent.op = "branch" /\ lastEvent.outcome \in Failures) =>
          IF Configured = "main" /\ lastEvent.branch = "main"
          THEN /\ ctrl = "Loading"
               /\ lookups = << "main", "master" >>
               /\ Cardinality(net) = 1
               /\ \A r \in net : r.kind = "branch" /\ r.branch = "master"
          ELSE /\ ctrl = "Error"
               /\ net = {}
               /\ Configured = "main" => lookups = << "main", "master" >>
               /\ Configured # "main" => lookups = << Configured >>

\* C2: a selectFile call with size above this.maxFileSize leaves the viewer
\* at FileTooLarge and issues no request for that click; no file request in
\* flight is for a file above the limit.
C2_TooLargeNoFetch ==
    /\ (lastEvent.op = "click" /\ lastEvent.size > maxFileSize) =>
          /\ viewer.kind = "FileTooLarge"
          /\ viewer.size = lastEvent.size
          /\ \A r \in net : r.click # clicks
    /\ \A r \in FileRequests : \A leaf \in Leaves :
          leaf.path = r.path => leaf.size <= maxFileSize

\* C2 witness: the spec's case, 200000 bytes against the limit 100000, clicked
\* while an earlier file fetch is in flight
C2_Witness ==
    /\ lastEvent.op = "click"
    /\ lastEvent.size = 200000
    /\ maxFileSize = 100000
    /\ viewer.kind = "FileTooLarge"
    /\ FileRequests # {}

\* C3 as stated: an instance never has two requests outstanding
C3_OneOutstanding == Cardinality(net) <= 1

\* C3 as amended: each user action is a sequential chain.  While loading there
\* is at most one request outstanding and it is a branch lookup or the tree
\* listing; file requests exist only once Ready, at most one per click; after
\* Error nothing is outstanding.
C3_SequentialChains ==
    /\ ctrl = "Loading" =>
          /\ Cardinality(net) <= 1
          /\ FileRequests = {}
    /\ ctrl = "Error" => net = {}
    /\ ctrl = "Ready" =>
          /\ net = FileRequests
          /\ \A r1, r2 \in net : r1.click = r2.click => r1 = r2
          /\ \A r \in net : r.click \in 1..clicks

\* C3 witness: the fetches of two different clicks in flight together
C3_Witness ==
    \E r1, r2 \in FileRequests : r1.click # r2.click /\ r1.path # r2.path

\* C4: selectFile cancels nothing (every request in flight before a click is
\* in flight after it), and every file response that arrives ok is displayed,
\* whatever is selected by then.
C4_NoCancellation ==
    [][ /\ lastEvent'.op = "click" => net \subseteq net'
        /\ (lastEvent'.op = "file" /\ lastEvent'.outcome = "ok") =>
              /\ viewer'.kind = "FileDisplayed"
              /\ viewer'.path = lastEvent'.path
              /\ viewer'.sha = ContentOf(lastEvent'.path) ]_vars

\* C4 witness: A then B were clicked, both fetched, both answered, A's answer
\* last: B is the selected entry and the viewer displays A
C4_Witness ==
    \E a, b \in Leaves :
        /\ a.path # b.path
        /\ b.size <= maxFileSize
        /\ clicks = 2
        /\ net = {}
        /\ selected = {b.path}
        /\ lastEvent = Event("file", "ok", branch, a.path, 0)
        /\ viewer.kind = "FileDisplayed"
        /\ viewer.path = a.path

\* C5: at most one entry is marked selected; right after selectFile it is the
\* clicked one; no other handler changes the marking.
C5_SingleSelection ==
    /\ [](/\ Cardinality(selected) <= 1
          /\ lastEvent.op = "click" => selected = {lastEvent.path}
          /\ clicks > 0 => selected # {})
    /\ [][lastEvent'.op # "click" => selected' = selected]_vars

\* C5 witness: a click on another entry while the fetch of an earlier
\* selection is still in flight
C5_Witness ==
    /\ clicks >= 2
    /\ lastEvent.op = "click"
    /\ selected = {lastEvent.path}
    /\ \E r \in FileRequests : r.click < clicks /\ r.path # lastEvent.path

\* C6: a failed file fetch sets the viewer to FileError and changes nothing
\* else: tree, Ready state, selection are kept and no request is issued.
C6_FileFailureFrame ==
    [][ (lastEvent'.op = "file" /\ lastEvent'.outcome \in Failures) =>
            /\ viewer'.kind = "FileError"
            /\ fileTree' = fileTree
            /\ ctrl = "Ready" /\ ctrl' = "Ready"
            /\ selected' = selected
            /\ branch' = branch
            /\ nreq' = nreq
            /\ net' \subseteq net /\ Cardinality(net') = Cardinality(net) - 1 ]_vars

\* C6 witness: a file fetch has just failed, with an entry selected
\* and the fetch of another click still in flight
C6_Witness ==
    /\ lastEvent.op = "file"
    /\ lastEvent.outcome = "rejected"
    /\ viewer.kind = "FileError"
    /\ ctrl = "Ready"
    /\ selected # {}
    /\ FileRequests # {}

\* C7: for a listing without duplicate paths and with nothing excluded,
\* buildFileTree raises no error, and every file leaf sits where its path
\* says and carries the sha and size of the record with that path.
\* (Checked against the code: the records "a", "a/b" raise the TypeError.)
C7_BuildFaithful ==
    LET files == Blobs(remote)
    IN  ( /\ lastEvent.op = "tree" /\ lastEvent.outcome = "ok"
          /\ NoDuplicatePaths(files)
          /\ \A i \in 1..Len(files) : \A j \in 1..Len(excludedPaths) :
                 ~Includes(files[i].path, excludedPaths[j]) )
        => /\ ctrl = "Ready"
           /\ \A k \in DOMAIN fileTree.nodes :
                 fileTree.nodes[k].type = "file" =>
                    /\ Join(k, "/") = fileTree.nodes[k].path
                    /\ \E i \in 1..Len(files) :
                          /\ files[i].path = fileTree.nodes[k].path
                          /\ files[i].sha = fileTree.nodes[k].sha
                          /\ files[i].size = fileTree.nodes[k].size

\* C8: once the listing is handled, a record is a leaf of the built tree if
\* and only if its path contains none of the exclude patterns, whatever the
\* other records and their order.
\* (Checked against the code: of "a/b", "a" only "a" is a leaf.)
C8_ExclusionFilter ==
    LET files == Blobs(remote)
    IN  (lastEvent.op = "tree" /\ lastEvent.outcome = "ok") =>
            \A i \in 1..Len(files) :
                ( /\ ctrl = "Ready"
                  /\ \E leaf \in Leaves : /\ leaf.path = files[i].path
                                          /\ leaf.sha = files[i].sha )
                <=> ~(\E j \in 1..Len(excludedPaths) :
                          Includes(files[i].path, excludedPaths[j]))

\* C9: an instance configured without an excluded-paths list (option omitted,
\* or attribute absent) filters with the default list, so no leaf's path
\* contains one of the default names.
\* (Checked against the code: the auto-initialized instance filters with [].)
C9_DefaultExclusions ==
    (~config.hasExcluded /\ ctrl = "Ready") =>
        /\ excludedPaths = DefaultExcludedPaths
        /\ \A leaf \in Leaves : \A j \in 1..Len(DefaultExcludedPaths) :
              ~Includes(leaf.path, DefaultExcludedPaths[j])

\* C10: file requests exist only in Ready and name the branch whose lookup
\* succeeded, as does the displayed file's link; in Error there was no click
\* and there is no file request.
C10_ResolvedBranch ==
    /\ \A r \in FileRequests : ctrl = "Ready" /\ r.branch = resolved
    /\ clicks > 0 => ctrl = "Ready"
    /\ viewer.kind = "FileDisplayed" => viewer.branch = resolved
    /\ ctrl = "Ready" => resolved = lookups[Len(lookups)]
    /\ ctrl = "Error" => FileRequests = {} /\ clicks = 0

\* C10 witness: configured "main", resolved by the fallback, and a file
\* request naming "master" in flight while a file is displayed
C10_Witness ==
    /\ Configured = "main"
    /\ resolved = "master"
    /\ \E r \in FileRequests : r.branch = "master"
    /\ viewer.kind = "FileDisplayed" /\ viewer.branch = "master"

====
